---------------------------- MODULE Spec2Model ----------------------------
(***************************************************************************)
(* Model of src/lamba_github_handler.py: the S3-triggered handler that     *)
(* validates an idea submission, routes it by tag, upserts a GitHub issue, *)
(* links it to a project board and relocates the triggering file.          *)
(*                                                                         *)
(* Strings are TLA+ strings; Len, SubSeq and \o act on them character by   *)
(* character, so startswith/endswith/split/lower/strip are computed.       *)
(* One invocation of lambda_handler is one step; the invocations are       *)
(* sequential, and the handler holds no state of its own between them.     *)
(* An external call that raises has no effect on the service it called.    *)
(***************************************************************************)
EXTENDS Integers, Sequences, FiniteSets, TLC

VARIABLES store, issues, milestones, items, last, prev

vars == <<store, issues, milestones, items, last, prev>>

---------------------------------------------------------------------------
(* Bounds of the model *)

\* external calls that may raise within one invocation
MaxFaults == 2
\* issues, or milestones, beyond one page of their listing in the specifications
\* that fill a repository
MaxOverflow == 2

---------------------------------------------------------------------------
(* String helpers: Python's str methods used by the handler *)

Ch(s, i) == SubSeq(s, i, i)

StartsWith(s, p) == Len(s) >= Len(p) /\ SubSeq(s, 1, Len(p)) = p

EndsWith(s, p) == Len(s) >= Len(p) /\ SubSeq(s, Len(s) - Len(p) + 1, Len(s)) = p

\* the index of the last "/" of s at or before i, 0 if there is none
RECURSIVE LastSlash(_, _)
LastSlash(s, i) ==
    IF i = 0 \/ Ch(s, i) = "/" THEN i ELSE LastSlash(s, i - 1)

\* key.split('/')[-1]: the text after the last "/" (the whole key if none)
LastSegment(s) == SubSeq(s, LastSlash(s, Len(s)) + 1, Len(s))

UpperChars == "ABCDEFGHIJKLMNOPQRSTUVWXYZ"
LowerChars == "abcdefghijklmnopqrstuvwxyz"

\* the lower-case letter of each upper-case ASCII letter
LowerTable ==
    [c \in {Ch(UpperChars, i) : i \in 1..Len(UpperChars)} |->
        Ch(LowerChars, CHOOSE i \in 1..Len(UpperChars) : Ch(UpperChars, i) = c)]

LowerChar(c) == IF c \in DOMAIN LowerTable THEN LowerTable[c] ELSE c

RECURSIVE LowerFrom(_, _)
LowerFrom(s, i) ==
    IF i > Len(s) THEN "" ELSE LowerChar(Ch(s, i)) \o LowerFrom(s, i + 1)

\* str.lower()
Lower(s) == LowerFrom(s, 1)

Whitespace == {" ", "\t", "\n", "\r"}

\* the first index from i upwards, the last from i downwards, that holds no whitespace
RECURSIVE FirstSolid(_, _)
FirstSolid(s, i) ==
    IF i > Len(s) \/ Ch(s, i) \notin Whitespace THEN i ELSE FirstSolid(s, i + 1)

RECURSIVE LastSolid(_, _)
LastSolid(s, i) ==
    IF i = 0 \/ Ch(s, i) \notin Whitespace THEN i ELSE LastSolid(s, i - 1)

\* str.strip(): drop leading and trailing whitespace
Strip(s) == SubSeq(s, FirstSolid(s, 1), LastSolid(s, Len(s)))

---------------------------------------------------------------------------
(* Configuration: the environment of the deployment *)

GITHUB_OWNER == "acme"

ROUTING ==
    [t \in {"broadband", "video"} |->
        IF t = "broadband"
        THEN [owner |-> GITHUB_OWNER, repo |-> "bb-ideas", project_id |-> "PVT_bb"]
        ELSE [owner |-> GITHUB_OWNER, repo |-> "video-ideas", project_id |-> "PVT_video"]]

\* f"{owner}/{repo}": the repository a target names
RepoName(target) == target.owner \o "/" \o target.repo

Repos == {RepoName(ROUTING[t]) : t \in DOMAIN ROUTING}

\* per_page of the issue listing
PerPage == 100

---------------------------------------------------------------------------
(* Payloads *)

required == <<"title", "intent_goal", "value", "target_quarter", "author", "tag">>

Fields == {required[i] : i \in 1..Len(required)}

\* an object's content: JSON text of an object with these fields, or not JSON
Json(d) == [json |-> TRUE, data |-> d]
NotJson == [json |-> FALSE, data |-> [f \in {} |-> ""]]

Submission(title, quarter, tag) ==
    [title |-> title, intent_goal |-> "Reduce eye strain",
     value |-> "Improves retention", target_quarter |-> quarter,
     author |-> "alice", tag |-> tag]

Without(d, fs) == [f \in (DOMAIN d) \ fs |-> d[f]]
Emptied(d, g) == [f \in DOMAIN d |-> IF f = g THEN "" ELSE d[f]]

Base == Submission("Add dark mode", "Q3", " Video ")

ValidPayloads ==
    {Json(Base),
     Json(Submission("Add captions", "Q4", "VIDEO\n")),
     Json(Submission("Add dark mode", "Q4", "BroadBand"))}

UnroutedPayloads == {Json(Submission("Add dark mode", "Q3", " Gaming"))}

InvalidPayloads ==
    {Json(Without(Base, {f})) : f \in Fields}
    \cup {Json(Emptied(Base, f)) : f \in Fields}
    \cup {Json(Without(Base, {"value", "tag"})),
          Json(Without(Emptied(Base, "intent_goal"), {"title"})),
          Json(Emptied(Without(Base, {"author"}), "target_quarter")),
          NotJson}

---------------------------------------------------------------------------
(* Trigger keys *)

AcceptedKeys == {"Input/team/x.json"}
SkippedKeys == {"Other/x.json", "Input/x.txt"}
TriggerKeys == AcceptedKeys \cup SkippedKeys


---------------------------------------------------------------------------
(* External call sites that may raise, by the client method called *)

CopySite(dest_folder) == "copy_object " \o dest_folder
DeleteSite(dest_folder) == "delete_object " \o dest_folder

ObjectSites ==
    {"get_secret_value", "get_object", "publish",
     CopySite("Invalid/"), DeleteSite("Invalid/"),
     CopySite("Processed/"), DeleteSite("Processed/")}

TrackerSites ==
    {"GET issues", "GET milestones", "POST milestones", "POST issues",
     "PATCH issue", "POST graphql", "graphql errors"}

Sites == ObjectSites \cup TrackerSites

FaultSets(sites, n) == {F \in SUBSET sites : Cardinality(F) <= n}

---------------------------------------------------------------------------
(* One invocation's view: the services' state and the calls made so far *)

NodeId(repo, number) == [repo |-> repo, number |-> number]

\* no process_github_issue call has returned
NoUpsert == [repo |-> "", title |-> "", issue_number |-> 0, node_id |-> NodeId("", 0)]

Begin(w) ==
    [store |-> w.store, issues |-> w.issues, milestones |-> w.milestones,
     items |-> w.items, upsert |-> NoUpsert,
     raised |-> <<>>,
     gets |-> <<>>, reqs |-> <<>>, pubs |-> <<>>, copies |-> <<>>, dels |-> <<>>]

Ok(x, v) == [ok |-> TRUE, err |-> "", val |-> v, x |-> x]
Raise(x, e) == [ok |-> FALSE, err |-> e, val |-> <<>>, x |-> x]

\* the call at site raises e: the service is unavailable or answers with an error
Fault(x, site, e) == Raise([x EXCEPT !.raised = Append(@, site)], e)

\* a variant that swallows the failure of the vault and goes on with no token
get_github_token_Swallows(x, F) ==
    IF "get_secret_value" \in F
    THEN Ok(Fault(x, "get_secret_value", "ResourceNotFoundException").x, "")
    ELSE Ok(x, "ghp_token")

\* secrets_manager.get_secret_value wrapped by get_github_token (lines 12-17);
\* the except of lines 40-44 returns its message
get_github_token(x, F) ==
    IF "get_secret_value" \in F
    THEN Fault(x, "get_secret_value",
               "Failed to fetch GITHUB_TOKEN from Secrets Manager: "
               \o "ResourceNotFoundException")
    ELSE Ok(x, "ghp_token")

\* s3.get_object, decode, json.loads
fetch_s3_json(x, key, F) ==
    LET x1 == [x EXCEPT !.gets = Append(@, key)]
    IN IF "get_object" \in F THEN Fault(x1, "get_object", "EndpointConnectionError")
       ELSE IF key \notin DOMAIN x.store THEN Raise(x1, "NoSuchKey")
       ELSE IF ~x.store[key].json THEN Raise(x1, "JSONDecodeError")
       ELSE Ok(x1, x.store[key].data)

\* a variant that copies and forgets to delete the original
move_s3_file_KeepsOriginal(x, key, dest_folder, F) ==
    LET new_key == dest_folder \o LastSegment(key)
        x1 == [x EXCEPT !.copies = Append(@, <<key, new_key>>)]
    IN IF CopySite(dest_folder) \in F
       THEN Fault(x1, CopySite(dest_folder), "EndpointConnectionError")
       ELSE IF key \notin DOMAIN x.store THEN Raise(x1, "NoSuchKey")
       ELSE Ok([x1 EXCEPT !.store =
                   [k \in (DOMAIN x.store) \cup {new_key} |->
                       IF k = new_key THEN x.store[key] ELSE x.store[k]]], new_key)

\* s3.copy_object then s3.delete_object
move_s3_file(x, key, dest_folder, F) ==
    LET new_key == dest_folder \o LastSegment(key)
        x1 == [x EXCEPT !.copies = Append(@, <<key, new_key>>)]
    IN IF CopySite(dest_folder) \in F
       THEN Fault(x1, CopySite(dest_folder), "EndpointConnectionError")
       ELSE IF key \notin DOMAIN x.store THEN Raise(x1, "NoSuchKey")
       ELSE LET copied == [k \in (DOMAIN x.store) \cup {new_key} |->
                              IF k = new_key THEN x.store[key] ELSE x.store[k]]
                x2 == [x1 EXCEPT !.store = copied, !.dels = Append(@, key)]
            IN IF DeleteSite(dest_folder) \in F
               THEN Fault(x2, DeleteSite(dest_folder), "EndpointConnectionError")
               ELSE Ok([x2 EXCEPT !.store =
                           [k \in (DOMAIN copied) \ {key} |-> copied[k]]], new_key)

\* a variant that tests presence only (field not in data) and lets "" through
validate_PresenceOnly(data) ==
    LET bad == {i \in 1..Len(required) : required[i] \notin DOMAIN data}
    IN IF bad = {} THEN [ok |-> TRUE, err |-> ""]
       ELSE [ok |-> FALSE,
             err |-> "Missing or empty field: "
                     \o required[CHOOSE i \in bad : \A j \in bad : i <= j]]

\* validate: the first required field that is missing or falsy
validate(data) ==
    LET bad == {i \in 1..Len(required) :
                   required[i] \notin DOMAIN data \/ data[required[i]] = ""}
    IN IF bad = {} THEN [ok |-> TRUE, err |-> ""]
       ELSE [ok |-> FALSE,
             err |-> "Missing or empty field: "
                     \o required[CHOOSE i \in bad : \A j \in bad : i <= j]]

\* the two emoji of the headers are written as their shortcodes
build_issue_body(data) ==
    Strip("\n## :dart: **Goal**\n" \o data["intent_goal"]
          \o "\n\n## :gem: **Value**\n" \o data["value"] \o "\n")

\* sns.publish
send_sns(x, message, F) ==
    LET x1 == [x EXCEPT !.pubs = Append(@, message)]
    IN IF "publish" \in F THEN Fault(x1, "publish", "EndpointConnectionError")
       ELSE Ok(x1, <<>>)

---------------------------------------------------------------------------
(* The issue tracker: REST requests through github_request, then GraphQL *)

Request(method, repo, path, arg) ==
    [method |-> method, repo |-> repo, path |-> path, arg |-> arg]

Min(a, b) == IF a <= b THEN a ELSE b

\* GET /issues?state=all&per_page=100: one page, the most recently created first
ListIssues(iss) ==
    [i \in 1..Min(Len(iss), PerPage) |->
        [number |-> Len(iss) - i + 1, title |-> iss[Len(iss) - i + 1].title]]

\* a variant that compares a field the listed issues do not have, and finds nothing
find_existing_issue_by_title_NoMatch(x, repo, title, F) ==
    LET x1 == [x EXCEPT !.reqs = Append(@, Request("GET", repo, "issues", title))]
    IN IF "GET issues" \in F THEN Fault(x1, "GET issues", "HTTPError")
       ELSE Ok(x1, 0)

\* the number of the first listed issue with this title, 0 for None
find_existing_issue_by_title(x, repo, title, F) ==
    LET x1 == [x EXCEPT !.reqs = Append(@, Request("GET", repo, "issues", title))]
        listing == ListIssues(x.issues[repo])
        hits == {i \in 1..Len(listing) : listing[i].title = title}
    IN IF "GET issues" \in F THEN Fault(x1, "GET issues", "HTTPError")
       ELSE IF hits = {} THEN Ok(x1, 0)
       ELSE Ok(x1, listing[CHOOSE i \in hits : \A j \in hits : i <= j].number)

\* GET /milestones?state=all: the URL names no per_page and no page, so the
\* answer is one page of the tracker's default size, the lowest numbers first
DefaultPerPage == 30

ListMilestones(ms) ==
    [i \in 1..Min(Len(ms), DefaultPerPage) |-> [number |-> i, title |-> ms[i]]]

\* the tracker refuses (422) to create a milestone whose title the repository
\* has already; urlopen raises HTTPError for it
get_or_create_milestone(x, repo, title, F) ==
    LET x1 == [x EXCEPT !.reqs = Append(@, Request("GET", repo, "milestones", title))]
        ms == x.milestones[repo]
        listing == ListMilestones(ms)
        hits == {i \in 1..Len(listing) : listing[i].title = title}
        x2 == [x1 EXCEPT !.reqs = Append(@, Request("POST", repo, "milestones", title))]
    IN IF "GET milestones" \in F THEN Fault(x1, "GET milestones", "HTTPError")
       ELSE IF hits # {}
       THEN Ok(x1, listing[CHOOSE i \in hits : \A j \in hits : i <= j].number)
       ELSE IF "POST milestones" \in F THEN Fault(x2, "POST milestones", "HTTPError")
       ELSE IF \E i \in 1..Len(ms) : ms[i] = title
       THEN Fault(x2, "POST milestones", "HTTPError")
       ELSE Ok([x2 EXCEPT !.milestones[repo] = Append(@, title)], Len(ms) + 1)

create_issue(x, repo, title, body, labels, milestone_title, F) ==
    LET number == Len(x.issues[repo]) + 1
        Post(m) ==
            LET x1 == [m.x EXCEPT !.reqs = Append(@, Request("POST", repo, "issues", title))]
            IN IF ~m.ok THEN m
               ELSE IF "POST issues" \in F THEN Fault(x1, "POST issues", "HTTPError")
               ELSE Ok([x1 EXCEPT !.issues[repo] =
                           Append(@, [title |-> title, body |-> body,
                                      labels |-> labels, milestone |-> m.val])],
                       [node_id |-> NodeId(repo, number), issue_number |-> number])
    IN Post(get_or_create_milestone(x, repo, milestone_title, F))

update_issue(x, repo, issue_number, body, labels, milestone_title, F) ==
    LET Patch(m) ==
            LET x1 == [m.x EXCEPT !.reqs =
                          Append(@, Request("PATCH", repo, "issues", issue_number))]
            IN IF ~m.ok THEN m
               ELSE IF "PATCH issue" \in F THEN Fault(x1, "PATCH issue", "HTTPError")
               ELSE Ok([x1 EXCEPT !.issues[repo][issue_number] =
                           [title |-> @.title, body |-> body, labels |-> labels,
                            milestone |-> m.val]],
                       [node_id |-> NodeId(repo, issue_number),
                        issue_number |-> issue_number])
    IN Patch(get_or_create_milestone(x, repo, milestone_title, F))

\* its return value is noted in the invocation's view (upsert)
process_github_issue(x, repo, title, body, labels, milestone_title, F) ==
    LET Noted(r) ==
            IF ~r.ok THEN r
            ELSE Ok([r.x EXCEPT !.upsert = [repo |-> repo, title |-> title,
                                            issue_number |-> r.val.issue_number,
                                            node_id |-> r.val.node_id]],
                    r.val)
        Upsert(found) ==
            IF ~found.ok THEN found
            ELSE IF found.val # 0
            THEN Noted(update_issue(found.x, repo, found.val, body, labels,
                                    milestone_title, F))
            ELSE Noted(create_issue(found.x, repo, title, body, labels,
                                    milestone_title, F))
    IN Upsert(find_existing_issue_by_title(x, repo, title, F))

\* a variant that does not look for "errors" in the response
add_issue_to_project_IgnoresErrors(x, issue_node_id, project_id, F) ==
    LET x1 == [x EXCEPT !.reqs = Append(@, Request("POST", "", "graphql", project_id))]
    IN IF "POST graphql" \in F THEN Fault(x1, "POST graphql", "HTTPError")
       ELSE IF "graphql errors" \in F
       THEN Ok(Fault(x1, "graphql errors", "").x, <<>>)
       ELSE Ok([x1 EXCEPT !.items = @ \cup {[project_id |-> project_id,
                                             content_id |-> issue_node_id]}], <<>>)

\* the addProjectV2ItemById mutation; "errors" in the response raises
add_issue_to_project(x, issue_node_id, project_id, F) ==
    LET x1 == [x EXCEPT !.reqs = Append(@, Request("POST", "", "graphql", project_id))]
    IN IF "POST graphql" \in F THEN Fault(x1, "POST graphql", "HTTPError")
       ELSE IF "graphql errors" \in F
       THEN Fault(x1, "graphql errors", "GraphQL error: Could not resolve to a node")
       ELSE Ok([x1 EXCEPT !.items = @ \cup {[project_id |-> project_id,
                                             content_id |-> issue_node_id]}], <<>>)

---------------------------------------------------------------------------
(* lambda_handler *)

Result(status, error, repo, issue_number) ==
    [status |-> status, error |-> error, repo |-> repo, issue_number |-> issue_number]

Return(x, ret) == [x |-> x, ret |-> ret]

\* an exception no handler catches: the invocation ends without a result
Unhandled(x, e) == Return(x, Result("raised", e, "", 0))

\* a failure branch: send_sns, move_s3_file to Invalid/, return
Reject(x, key, message, status, error, F) ==
    LET Moved(m) ==
            IF ~m.ok THEN Unhandled(m.x, m.err)
            ELSE Return(m.x, Result(status, error, "", 0))
        Sent(s) ==
            IF ~s.ok THEN Unhandled(s.x, s.err)
            ELSE Moved(move_s3_file(s.x, key, "Invalid/", F))
    IN Sent(send_sns(x, message, F))

\* the except clause of lines 84-88
Failed(r, key, F) ==
    Reject(r.x, key, "Error processing file: " \o key \o "\nError: " \o r.err,
           "failed", r.err, F)

\* lines 70-90: upsert, link, move to Processed/
Deliver(x, key, body, tag, F) ==
    LET target == ROUTING[tag]
        repo == RepoName(target)
        labels == <<body["author"], tag>>
        Moved(m, issue_number) ==
            IF ~m.ok THEN Failed(m, key, F)
            ELSE Return(m.x, Result("success", "", repo, issue_number))
        Linked(a, issue_number) ==
            IF ~a.ok THEN Failed(a, key, F)
            ELSE Moved(move_s3_file(a.x, key, "Processed/", F), issue_number)
        Upserted(p) ==
            IF ~p.ok THEN Failed(p, key, F)
            ELSE Linked(add_issue_to_project(p.x, p.val.node_id, target.project_id, F),
                        p.val.issue_number)
    IN Upserted(process_github_issue(x, repo, body["title"], build_issue_body(body),
                                     labels, body["target_quarter"], F))

\* a variant without .strip()
NormalizeTag_NoStrip(raw) == Lower(raw)

\* line 63: body["tag"].lower().strip()
NormalizeTag(raw) == Strip(Lower(raw))

\* lines 63-68: normalise the tag and look it up
Route(x, key, body, F) ==
    LET tag == NormalizeTag(body["tag"])
        error_msg == "Unsupported tag: " \o tag
    IN IF tag \notin DOMAIN ROUTING
       THEN Reject(x, key,
                   "Invalid tag in JSON file: " \o key \o "\nError: " \o error_msg,
                   "invalid", error_msg, F)
       ELSE Deliver(x, key, body, tag, F)

\* lines 54-61: fetch and validate; any exception is the validation failure
Admit(f, key, F) ==
    LET Checked(v) ==
            IF ~v.ok
            THEN Reject(f.x, key, "Invalid JSON file: " \o key \o "\nError: " \o v.err,
                        "invalid", v.err, F)
            ELSE Route(f.x, key, f.val, F)
    IN Checked(IF f.ok THEN validate(f.val) ELSE [ok |-> FALSE, err |-> f.err])

\* a variant with "and" for "or"
Skips_Both(key) == ~StartsWith(key, "Input/") /\ ~EndsWith(key, ".json")

\* line 50, the keys the handler leaves alone:
\* not key.startswith("Input/") or not key.endswith(".json")
Skips(key) == ~StartsWith(key, "Input/") \/ ~EndsWith(key, ".json")

lambda_handler(w, key, F) ==
    LET Authorized(token) ==
            IF ~token.ok THEN Return(token.x, Result("failed", token.err, "", 0))
            ELSE IF Skips(key) THEN Return(token.x, Result("skipped", "", "", 0))
            ELSE Admit(fetch_s3_json(token.x, key, F), key, F)
    IN Authorized(get_github_token(Begin(w), F))

---------------------------------------------------------------------------
(* State: the bucket, the tracker, the invocation that has just ended      *)
(* (last), and of the invocations before it (prev) the key of the latest   *)
(* if it relocated its file and what process_github_issue last returned    *)

NoObject == [present |-> FALSE, content |-> NotJson]

Idle ==
    [key |-> "", object |-> NoObject, raised |-> <<>>,
     ret |-> Result("none", "", "", 0), upsert |-> NoUpsert,
     gets |-> <<>>, reqs |-> <<>>, pubs |-> <<>>, copies |-> <<>>, dels |-> <<>>]

Init ==
    /\ store = [k \in {} |-> NotJson]
    /\ issues = [r \in Repos |-> <<>>]
    /\ milestones = [r \in Repos |-> <<>>]
    /\ items = {}
    /\ last = Idle
    /\ prev = [relocated |-> "", upsert |-> NoUpsert]

\* s3.put_object by the submitter: the put that raises the trigger event
Put(st, key, content) ==
    [k \in (DOMAIN st) \cup {key} |-> IF k = key THEN content ELSE st[k]]

\* one invocation of lambda_handler on the bucket st for the event of key,
\* in which the calls in F raise
Invocation(st, key, F, cap) ==
    LET Ended(out) ==
            /\ \A r \in Repos : Len(out.x.issues[r]) <= cap
            /\ store' = out.x.store
            /\ issues' = out.x.issues
            /\ milestones' = out.x.milestones
            /\ items' = out.x.items
            /\ last' = [key |-> key,
                        object |-> IF key \in DOMAIN st
                                   THEN [present |-> TRUE, content |-> st[key]]
                                   ELSE NoObject,
                        raised |-> out.x.raised,
                        ret |-> out.ret, upsert |-> out.x.upsert,
                        gets |-> out.x.gets, reqs |-> out.x.reqs,
                        pubs |-> out.x.pubs, copies |-> out.x.copies,
                        dels |-> out.x.dels]
    IN /\ last = Idle
       /\ Ended(lambda_handler([store |-> st, issues |-> issues,
                                milestones |-> milestones, items |-> items], key, F))
       /\ UNCHANGED prev

\* an object arrives under key and the host invokes the handler for it
Submit(key, content, F, cap) == Invocation(Put(store, key, content), key, F, cap)

\* the host delivers the event of key again: nothing new was put
Redeliver(key, F, cap) == Invocation(store, key, F, cap)

\* the move of the invocation's file went through: copied, and the original deleted
Relocated(l) ==
    /\ l.dels # <<>>
    /\ l.ret.status \in {"invalid", "failed", "success"}

\* the host takes the result; nothing of the invocation stays in the handler
Acknowledge ==
    /\ last # Idle
    /\ last' = Idle
    /\ prev' = [relocated |-> IF Relocated(last) THEN last.key ELSE "",
                upsert |-> IF last.upsert # NoUpsert THEN last.upsert ELSE prev.upsert]
    /\ UNCHANGED <<store, issues, milestones, items>>

EventKeys == TriggerKeys \cup DOMAIN store

---------------------------------------------------------------------------
(* Spec: the whole pipeline, any call may raise *)

SpecSites == ObjectSites \cup {"POST issues", "POST graphql", "graphql errors"}

SpecFaults == FaultSets(SpecSites, MaxFaults)

SpecPayloads == {Json(Base), NotJson} \cup UnroutedPayloads

Next ==
    \/ \E key \in AcceptedKeys, content \in SpecPayloads, F \in SpecFaults :
          Submit(key, content, F, PerPage)
    \/ \E F \in SpecFaults : Submit("Other/x.json", Json(Base), F, PerPage)
    \/ \E key \in EventKeys, F \in SpecFaults : Redeliver(key, F, PerPage)
    \/ Acknowledge

Spec == Init /\ [][Next]_vars

---------------------------------------------------------------------------
(* SpecValidation: every way a payload can fail validation; the bucket,    *)
(* the vault and the notifier may raise                                    *)

ValidationFaults == FaultSets(ObjectSites, MaxFaults)

NextValidation ==
    \/ \E key \in AcceptedKeys, content \in InvalidPayloads \cup {Json(Base)},
          F \in ValidationFaults : Submit(key, content, F, PerPage)
    \/ \E key \in EventKeys, F \in ValidationFaults : Redeliver(key, F, PerPage)
    \/ Acknowledge

SpecValidation == Init /\ [][NextValidation]_vars

---------------------------------------------------------------------------
(* SpecTracker: valid submissions for both routes, two titles and two      *)
(* quarters; the tracker's calls may raise                                 *)

TrackerFaults == FaultSets(TrackerSites, MaxFaults)

NextTracker ==
    \/ \E key \in AcceptedKeys, content \in ValidPayloads, F \in TrackerFaults :
          Submit(key, content, F, PerPage)
    \/ \E key \in AcceptedKeys, F \in TrackerFaults : Redeliver(key, F, PerPage)
    \/ Acknowledge

SpecTracker == Init /\ [][NextTracker]_vars

---------------------------------------------------------------------------
(* SpecScale: one repository grows past a page of the issue listing, every *)
(* call succeeds                                                           *)

VideoRepo == RepoName(ROUTING["video"])

\* a submission whose title no issue of the repository carries yet
FreshSubmission ==
    Json(Submission("Idea " \o ToString(Len(issues[VideoRepo]) + 1), "Q3", "video"))

NextScale ==
    \/ \E key \in AcceptedKeys, content \in {Json(Base), FreshSubmission} :
          Submit(key, content, {}, PerPage + MaxOverflow)
    \/ Acknowledge

SpecScale == Init /\ [][NextScale]_vars

---------------------------------------------------------------------------
(* SpecQuarters: one idea is moved from quarter to quarter until the        *)
(* repository holds more milestones than a page of the milestone listing,   *)
(* every call answers                                                       *)

Quarter(k) == "Q" \o ToString(k)

\* the oldest quarter, the newest one, and one the repository has not seen
QuarterChoices ==
    {k \in {1, Len(milestones[VideoRepo]), Len(milestones[VideoRepo]) + 1} :
        k \in 1..(DefaultPerPage + MaxOverflow)}

NextQuarters ==
    \/ \E key \in AcceptedKeys, k \in QuarterChoices :
          Submit(key, Json(Submission("Add dark mode", Quarter(k), "video")), {}, PerPage)
    \/ Acknowledge

SpecQuarters == Init /\ [][NextQuarters]_vars

---------------------------------------------------------------------------
(* Vocabulary of the claims *)

Range(q) == {q[i] : i \in 1..Len(q)}

\* an invocation has just ended
Invoked == last # Idle

\* this step is one invocation of lambda_handler
InvocationStep == last = Idle /\ last' # Idle

\* the key starts with "Input/" and ends with ".json"
MatchesInput(key) == StartsWith(key, "Input/") /\ EndsWith(key, ".json")

\* the invocation fetched nothing, called no tracker, published nothing, moved nothing
NoCalls(l) ==
    l.gets = <<>> /\ l.reqs = <<>> /\ l.pubs = <<>> /\ l.copies = <<>> /\ l.dels = <<>>

\* the object the event names is where and what it was
Untouched(l) ==
    l.object.present => l.key \in DOMAIN store /\ store[l.key] = l.object.content

MissingFields(d) == {f \in Fields : f \notin DOMAIN d \/ d[f] = ""}

\* the first required field, in the order of the list, that d lacks or holds empty
FirstMissing(d) ==
    required[CHOOSE i \in 1..Len(required) :
                /\ required[i] \in MissingFields(d)
                /\ \A j \in 1..(i - 1) : required[j] \notin MissingFields(d)]

\* the event's object is a submission that lacks a required field
SawIncomplete(l) ==
    /\ MatchesInput(l.key) /\ l.object.present /\ l.object.content.json
    /\ MissingFields(l.object.content.data) # {}

\* the event's object is a complete submission
SawComplete(l) ==
    /\ MatchesInput(l.key) /\ l.object.present /\ l.object.content.json
    /\ MissingFields(l.object.content.data) = {}

TagOf(l) == Strip(Lower(l.object.content.data["tag"]))

SawUnrouted(l) == SawComplete(l) /\ TagOf(l) \notin DOMAIN ROUTING
SawRouted(l) == SawComplete(l) /\ TagOf(l) \in DOMAIN ROUTING

\* the file of the event is at folder + basename, with its content, and gone from its key
MovedTo(l, folder) ==
    /\ (folder \o LastSegment(l.key)) \in DOMAIN store
    /\ store[folder \o LastSegment(l.key)] = l.object.content
    /\ l.key \notin DOMAIN store

\* this invocation copied the file of the event to folder + basename
CopiedTo(l, folder) ==
    /\ <<l.key, folder \o LastSegment(l.key)>> \in Range(l.copies)
    /\ CopySite(folder) \notin Range(l.raised)
    /\ (folder \o LastSegment(l.key)) \in DOMAIN store

CountTitle(iss, title) == Cardinality({i \in 1..Len(iss) : iss[i].title = title})

PostsIssue(l) == \E q \in Range(l.reqs) : q.method = "POST" /\ q.path = "issues"

---------------------------------------------------------------------------
(* C1: for an event whose key does not both start with "Input/" and end    *)
(* with ".json", lambda_handler fetches no object, calls no tracker,       *)
(* publishes nothing, copies and deletes nothing, and returns skipped.     *)

\* C1 as stated: the result is skipped whatever the vault does
C1_Original ==
    (Invoked /\ ~MatchesInput(last.key)) =>
        NoCalls(last) /\ last.ret.status = "skipped"

\* C1 amended: no call and no change in any case; the result is skipped when the
\* token was fetched, and failed when fetching the token raised
C1_Skipped ==
    (Invoked /\ ~MatchesInput(last.key)) =>
        /\ NoCalls(last)
        /\ Untouched(last)
        /\ last.ret.status =
              IF "get_secret_value" \in Range(last.raised) THEN "failed" ELSE "skipped"

C1_Witness ==
    /\ Invoked /\ ~MatchesInput(last.key)
    /\ last.object.present
    /\ last.ret.status = "skipped"

---------------------------------------------------------------------------
(* C8: when fetching the token from the vault fails, lambda_handler        *)
(* returns {status: failed, error} without reading the object, copying or  *)
(* deleting, publishing or calling the tracker, for every event.           *)

C8_SecretFailure ==
    (Invoked /\ "get_secret_value" \in Range(last.raised)) =>
        /\ last.ret.status = "failed"
        /\ StartsWith(last.ret.error, "Failed to fetch GITHUB_TOKEN from Secrets Manager: ")
        /\ NoCalls(last)
        /\ Untouched(last)

C8_Witness ==
    /\ Invoked /\ "get_secret_value" \in Range(last.raised)
    /\ MatchesInput(last.key)
    /\ last.object.present /\ last.key \in DOMAIN store
    /\ last.ret.status = "failed"

---------------------------------------------------------------------------
(* C4: a complete submission whose tag, lowercased and trimmed, is no key  *)
(* of the routing table: no tracker call, one notification, the object     *)
(* relocated to Invalid/ + basename, status invalid, the error naming the  *)
(* normalized tag.                                                         *)

UnroutedOutcome(l) ==
    /\ l.reqs = <<>>
    /\ Len(l.pubs) = 1
    /\ MovedTo(l, "Invalid/")
    /\ l.ret.status = "invalid"
    /\ l.ret.error = "Unsupported tag: " \o TagOf(l)

---------------------------------------------------------------------------
(* C7: when the GraphQL response carries errors, lambda_handler does not   *)
(* return success: it publishes a notification, relocates the object to    *)
(* Invalid/ (never to Processed/) and returns a failure status; the issue  *)
(* of the upsert stays in the tracker.                                     *)

GraphqlErrors(l) == "graphql errors" \in Range(l.raised)

\* the issue process_github_issue returned is in the tracker, and nothing asked to remove it
IssueKept(l) ==
    /\ l.upsert # NoUpsert
    /\ l.upsert.issue_number \in 1..Len(issues[l.upsert.repo])
    /\ issues[l.upsert.repo][l.upsert.issue_number].title = l.upsert.title
    /\ \A q \in Range(l.reqs) : q.method \in {"GET", "POST", "PATCH"}

NeverProcessed(l) ==
    \A c \in Range(l.copies) : ~StartsWith(c[2], "Processed/")

---------------------------------------------------------------------------
(* C9: the host redelivers an event after the invocation for it completed  *)
(* and relocated the file, all services available: the second invocation   *)
(* returns one of skipped, invalid, failed, success (no exception escapes) *)
(* and creates no second issue.                                            *)

C9_Redelivery ==
    (/\ Invoked
     /\ prev.relocated = last.key
     /\ ~last.object.present
     /\ last.raised = <<>>) =>
        /\ last.ret.status \in {"skipped", "invalid", "failed", "success"}
        /\ ~PostsIssue(last)

---------------------------------------------------------------------------
(* C10: after any invocation, whichever calls raise, the file is not under *)
(* both Processed/ and Invalid/, and it is under Processed/ only if the    *)
(* invocation returned success.                                            *)

C10_Exclusive ==
    Invoked =>
        /\ ~(CopiedTo(last, "Processed/") /\ CopiedTo(last, "Invalid/"))
        /\ (CopiedTo(last, "Processed/") => last.ret.status = "success")

---------------------------------------------------------------------------
(* C3: an accepted key whose payload lacks one of the six required fields, *)
(* or holds "" for one: status invalid, no tracker call, the object under  *)
(* Invalid/ with the same basename and gone from its key, the error naming *)
(* the first missing or empty field in the order of the required list.     *)

IncompleteOutcome(l) ==
    /\ l.reqs = <<>>
    /\ l.ret.status = "invalid"
    /\ l.ret.error = "Missing or empty field: " \o FirstMissing(l.object.content.data)
    /\ MovedTo(l, "Invalid/")

---------------------------------------------------------------------------
(* C2: an accepted key, a complete payload whose normalized tag is a key   *)
(* of ROUTING, every external call succeeding: status success with the     *)
(* routed owner/repo and the issue number; the routed repo holds an issue  *)
(* with the title, labels [author, normalized tag] and the milestone       *)
(* titled target_quarter, attached to the routed project; the object is at *)
(* Processed/ + basename and no longer at its key; nothing is published.   *)

RoutedOutcome(l) ==
    LET data == l.object.content.data
        target == ROUTING[TagOf(l)]
        repo == target.owner \o "/" \o target.repo
        n == l.ret.issue_number
    IN /\ l.ret.status = "success"
       /\ l.ret.repo = repo
       /\ n \in 1..Len(issues[repo])
       /\ issues[repo][n].title = data["title"]
       /\ issues[repo][n].labels = <<data["author"], TagOf(l)>>
       /\ issues[repo][n].milestone \in 1..Len(milestones[repo])
       /\ milestones[repo][issues[repo][n].milestone] = data["target_quarter"]
       /\ [project_id |-> target.project_id, content_id |-> NodeId(repo, n)] \in items
       /\ MovedTo(l, "Processed/")
       /\ l.pubs = <<>>

\* C2: with no call raising, a routed submission ends in RoutedOutcome
C2_Success ==
    (Invoked /\ SawRouted(last) /\ last.raised = <<>>) => RoutedOutcome(last)

\* the tag needed normalizing, and the issue was there already
C2_Witness ==
    /\ Invoked /\ SawRouted(last) /\ last.raised = <<>>
    /\ last.object.content.data["tag"] # TagOf(last)
    /\ \E q \in Range(last.reqs) : q.method = "PATCH"
    /\ last.ret.status = "success"

---------------------------------------------------------------------------
(* C5: two invocations of process_github_issue, one after the other, with  *)
(* the same title on the same repo leave exactly one issue with that       *)
(* title: the second finds the issue by its title and updates it with      *)
(* PATCH, returning the same issue_number and node_id, and POSTs none.     *)

Titled(iss, title) == {i \in 1..Len(iss) : iss[i].title = title}

\* an issue with this title is among the PerPage most recently created
OnPage(iss, title) == \E i \in Titled(iss, title) : i > Len(iss) - PerPage

Newest(ns) == CHOOSE n \in ns : \A m \in ns : m <= n

PatchesIssue(l, n) ==
    \E q \in Range(l.reqs) : q.method = "PATCH" /\ q.path = "issues" /\ q.arg = n

\* process_github_issue returned in this step, having updated an issue that was there
Updated(before, l) ==
    /\ l.upsert.issue_number \in Titled(before, l.upsert.title)
    /\ l.upsert.node_id = NodeId(l.upsert.repo, l.upsert.issue_number)
    /\ PatchesIssue(l, l.upsert.issue_number)
    /\ ~PostsIssue(l)

\* C5 as stated: for every repository and title, however many issues were created since
C5_Original ==
    [][(/\ InvocationStep
        /\ last'.upsert # NoUpsert
        /\ Titled(issues[last'.upsert.repo], last'.upsert.title) # {}) =>
          /\ Updated(issues[last'.upsert.repo], last')
          /\ CountTitle(issues'[last'.upsert.repo], last'.upsert.title) = 1]_vars

\* C5 amended: a title no issue carries is created once; a title that an issue among
\* the PerPage most recent carries is updated on the newest such issue, nothing is
\* created, and the title stays on one issue if it was on one; an invocation
\* that follows one for the same title returns what that one returned
C5_Idempotent ==
    [][(InvocationStep /\ last'.upsert # NoUpsert) =>
          LET repo == last'.upsert.repo
              title == last'.upsert.title
          IN /\ Titled(issues[repo], title) = {} =>
                   /\ PostsIssue(last')
                   /\ CountTitle(issues'[repo], title) = 1
             /\ OnPage(issues[repo], title) =>
                   /\ Updated(issues[repo], last')
                   /\ last'.upsert.issue_number = Newest(Titled(issues[repo], title))
                   /\ Len(issues'[repo]) = Len(issues[repo])
                   /\ CountTitle(issues'[repo], title) = CountTitle(issues[repo], title)
             /\ (prev.upsert.repo = repo /\ prev.upsert.title = title) =>
                   last'.upsert = prev.upsert]_vars

\* the same title twice in a row in a repository of more than PerPage issues
C5_Witness ==
    /\ Invoked /\ last.upsert # NoUpsert
    /\ prev.upsert = last.upsert
    /\ PatchesIssue(last, last.upsert.issue_number)
    /\ Len(issues[last.upsert.repo]) > PerPage
    /\ CountTitle(issues[last.upsert.repo], last.upsert.title) = 1

---------------------------------------------------------------------------
(* C6: over any sequence of invocations, one at a time,                    *)
(* get_or_create_milestone never sends a milestone-creation request for a  *)
(* title that is among the repository's milestones, so no repository holds *)
(* two milestones of one title; when the title exists, the number of the   *)
(* existing milestone is returned.                                         *)

CreatesMilestone(q) == q.method = "POST" /\ q.path = "milestones"

\* C6: no creation request for an existing title, no two milestones of one title,
\* and the milestone set on the issue is the existing one of that title
C6_Milestones ==
    [][InvocationStep =>
          /\ \A q \in Range(last'.reqs) :
                CreatesMilestone(q) => q.arg \notin Range(milestones[q.repo])
          /\ \A r \in Repos : \A i, j \in 1..Len(milestones'[r]) :
                milestones'[r][i] = milestones'[r][j] => i = j
          /\ \A q \in Range(last'.reqs) :
                (q.method = "GET" /\ q.path = "milestones"
                 /\ q.arg \in Range(milestones[q.repo])
                 /\ last'.upsert # NoUpsert) =>
                    milestones[q.repo][issues'[q.repo][last'.upsert.issue_number].milestone]
                       = q.arg]_vars

=============================================================================
